---- MODULE Spec2Model ----
(***************************************************************************)
(* Model of the Simple Task Manager (python_simple_task_manager_(sqlite)). *)
(*                                                                         *)
(* The state is the SQLite file (the tasks table and the AUTOINCREMENT     *)
(* counter kept in sqlite_sequence) and the position of main()'s loop.     *)
(* Every input() of the program is one step: the line typed is chosen from *)
(* a small set of texts.  A text is a sequence of one-character strings,   *)
(* so that strip(), int(), strptime() and SQLite's text comparison are     *)
(* computed character by character as the program computes them.           *)
(***************************************************************************)
EXTENDS Integers, Sequences, FiniteSets, TLC

\* ------------------------------------------------------------------ bounds
\* AUTOINCREMENT hands out ids without end; the model stops adding here.
MaxId == 2

\* ------------------------------------------------------------ characters
Digits == {"0", "1", "2", "3", "4", "5", "6", "7", "8", "9"}

\* int(c) of one decimal digit.
DigitVal ==
  ("0" :> 0) @@ ("1" :> 1) @@ ("2" :> 2) @@ ("3" :> 3) @@ ("4" :> 4) @@
  ("5" :> 5) @@ ("6" :> 6) @@ ("7" :> 7) @@ ("8" :> 8) @@ ("9" :> 9)

\* The byte of each character the inputs use (SQLite compares TEXT with
\* memcmp under the default BINARY collation).
Ord ==
  (" " :> 32) @@ ("+" :> 43) @@ ("-" :> 45) @@
  ("0" :> 48) @@ ("1" :> 49) @@ ("2" :> 50) @@ ("3" :> 51) @@ ("4" :> 52) @@
  ("5" :> 53) @@ ("6" :> 54) @@ ("7" :> 55) @@ ("8" :> 56) @@ ("9" :> 57) @@
  ("a" :> 97) @@ ("b" :> 98) @@ ("c" :> 99) @@ ("x" :> 120)

\* The characters str.strip() removes, among those the inputs use.
Whitespace == {" "}

\* ----------------------------------------------------------------- None
\* Python's None / SQL NULL: a value no text is equal to.
None == <<"None">>

\* --------------------------------------------------------------- str.strip
RECURSIVE lstrip(_)
lstrip(s) ==
  IF s # <<>> /\ Head(s) \in Whitespace THEN lstrip(Tail(s)) ELSE s

RECURSIVE rstrip(_)
rstrip(s) ==
  IF s # <<>> /\ s[Len(s)] \in Whitespace
  THEN rstrip(SubSeq(s, 1, Len(s) - 1))
  ELSE s

\* Variant: the line is used as typed.
strip_omitted(s) == s

strip(s) == rstrip(lstrip(s))

\* ---------------------------------------------------------------- int(str)
AllDigits(s) == s # <<>> /\ \A i \in 1..Len(s) : s[i] \in Digits

RECURSIVE DropZeros(_)
DropZeros(s) ==
  IF Len(s) > 1 /\ Head(s) = "0" THEN DropZeros(Tail(s)) ELSE s

\* int(task_id_str): an optional sign and decimal digits, else ValueError.
\* Python integers have no width, so the value is kept as its decimal
\* digits (without leading zeros) and its sign.
ParseInt(str) ==
  LET s    == strip(str)
      sign == s # <<>> /\ Head(s) \in {"+", "-"}
      body == IF sign THEN Tail(s) ELSE s
  IN  IF AllDigits(body)
      THEN [ok |-> TRUE, neg |-> (sign /\ Head(s) = "-"), digits |-> DropZeros(body)]
      ELSE [ok |-> FALSE, neg |-> FALSE, digits |-> <<>>]

\* task_id <= 0
NotPositive(n) == n.neg \/ n.digits = <<"0">>

\* str(n) for a natural number n.
RECURSIVE IntToStr(_)
IntToStr(n) ==
  LET d == CHOOSE c \in Digits : DigitVal[c] = n % 10
  IN  IF n < 10 THEN <<d>> ELSE Append(IntToStr(n \div 10), d)

\* The largest value of an SQLite INTEGER, 2^63 - 1, in decimal.
Int64Max ==
  <<"9","2","2","3","3","7","2","0","3","6","8","5","4","7","7","5","8","0","7">>

\* memcmp order of two texts: the first differing byte decides, and a
\* proper prefix is smaller.
RECURSIVE TextLess(_, _)
TextLess(a, b) ==
  IF b = <<>> THEN FALSE
  ELSE IF a = <<>> THEN TRUE
  ELSE IF Head(a) # Head(b) THEN Ord[Head(a)] < Ord[Head(b)]
  ELSE TextLess(Tail(a), Tail(b))

\* Binding a Python int to an SQLite parameter: it must fit 64 bits, or the
\* sqlite3 module raises OverflowError (which is not an sqlite3.Error).
FitsInt64(digits) ==
  \/ Len(digits) < Len(Int64Max)
  \/ Len(digits) = Len(Int64Max) /\ ~TextLess(Int64Max, digits)

\* ------------------------------------------------- datetime.strptime
\* Value of a short run of decimal digits.
RECURSIVE NatOf(_)
NatOf(s) ==
  IF s = <<>> THEN 0 ELSE 10 * NatOf(SubSeq(s, 1, Len(s) - 1)) + DigitVal[s[Len(s)]]

\* %m of _strptime: 1[0-2]|0[1-9]|[1-9]
MonthField(f) ==
  \/ Len(f) = 2 /\ f[1] = "1" /\ f[2] \in {"0", "1", "2"}
  \/ Len(f) = 2 /\ f[1] = "0" /\ f[2] \in Digits \ {"0"}
  \/ Len(f) = 1 /\ f[1] \in Digits \ {"0"}

\* %d of _strptime: 3[0-1]|[1-2]\d|0[1-9]|[1-9]| [1-9]
DayField(f) ==
  \/ Len(f) = 2 /\ f[1] = "3" /\ f[2] \in {"0", "1"}
  \/ Len(f) = 2 /\ f[1] \in {"1", "2"} /\ f[2] \in Digits
  \/ Len(f) = 2 /\ f[1] = "0" /\ f[2] \in Digits \ {"0"}
  \/ Len(f) = 1 /\ f[1] \in Digits \ {"0"}
  \/ Len(f) = 2 /\ f[1] = " " /\ f[2] \in Digits \ {"0"}

IsLeap(y) == y % 4 = 0 /\ (y % 100 # 0 \/ y % 400 = 0)

DaysInMonth(y, m) ==
  IF m = 2 THEN (IF IsLeap(y) THEN 29 ELSE 28)
  ELSE IF m \in {4, 6, 9, 11} THEN 30
  ELSE 31

\* The ways '%Y-%m-%d' splits s into a 4-digit year, a month and a day with
\* nothing left over (the '-' after the month leaves at most one).
DateSplits(s) ==
  { sp \in {1, 2} \X {1, 2} :
      /\ Len(s) = 6 + sp[1] + sp[2]
      /\ AllDigits(SubSeq(s, 1, 4))
      /\ s[5] = "-"
      /\ MonthField(SubSeq(s, 6, 5 + sp[1]))
      /\ s[6 + sp[1]] = "-"
      /\ DayField(SubSeq(s, 7 + sp[1], Len(s))) }

\* datetime.strptime(date_str, '%Y-%m-%d'): ok is FALSE where it raises
\* ValueError (no match, text left over, or no such calendar day).
strptime(s) ==
  IF DateSplits(s) = {} THEN [ok |-> FALSE, year |-> 0, month |-> 0, day |-> 0]
  ELSE LET sp == CHOOSE x \in DateSplits(s) : TRUE
           y  == NatOf(SubSeq(s, 1, 4))
           m  == NatOf(SubSeq(s, 6, 5 + sp[1]))
           d  == NatOf(SelectSeq(SubSeq(s, 7 + sp[1], Len(s)), LAMBDA c : c \in Digits))
       IN  [ok |-> y >= 1 /\ d <= DaysInMonth(y, m), year |-> y, month |-> m, day |-> d]

\* ------------------------------------------------------------- the inputs
\* Lines typed at "Enter your choice: ".
ChoiceInputs ==
  { <<"1">>, <<"2">>, <<"3">>, <<"4">>, <<"5">>, <<"6">>, <<" ", "6">>,
    <<"7">>, <<"x">>, <<>> }

\* Lines typed at "Enter task description: ": empty, blanks, and a text
\* between blanks.
DescriptionInputs ==
  { <<>>, <<" ">>, <<" ", " ">>, <<" ", "a", " ">> }

\* Lines typed at the due date prompt: blank, 2025-1-5, 2025-01-10 (with a
\* leading blank), 2025-13-01, 31-12-2025 and 2025-02-30.
DueDateInputs ==
  { <<>>,
    <<" ">>,
    <<"2","0","2","5","-","1","-","5">>,
    <<" ","2","0","2","5","-","0","1","-","1","0">>,
    <<"2","0","2","5","-","1","3","-","0","1">>,
    <<"3","1","-","1","2","-","2","0","2","5">>,
    <<"2","0","2","5","-","0","2","-","3","0">> }

\* Lines typed at the task id prompts: the ids the model can assign and
\* one more, 0, -5, abc, a blank line, 2^63 - 1 and 2^63.
TaskIdInputs ==
  { IntToStr(n) : n \in 1..(MaxId + 1) } \cup
  { <<"0">>, <<"-", "5">>, <<"a", "b", "c">>, <<>>, <<" ", "0", "1">>,
    Int64Max,
    <<"9","2","2","3","3","7","2","0","3","6","8","5","4","7","7","5","8","0","8">> }

\* What can go wrong in one storage call: sqlite3.connect fails, a statement
\* fails, or the commit fails (each an sqlite3.Error).
Faults == {"none", "connect", "execute", "commit"}

\* ---------------------------------------------------------------- state
VARIABLES
  pc,           \* where main() is: "start", "menu", a prompt, "exited", "crashed"
  tableExists,  \* the tasks table is in the database file
  tasks,        \* the rows of the tasks table
  seq,          \* sqlite_sequence.seq of tasks (AUTOINCREMENT), 0 when absent
  assigned,     \* every id an INSERT has committed (history)
  description,  \* main()'s local description while the date is asked
  last,         \* the last call made and the message it printed
  listed,       \* the rows the last view_tasks printed, in order
  connOpen      \* a connection is open

vars == <<pc, tableExists, tasks, seq, assigned, description, last, listed, connOpen>>

\* prior is the completed flag the row named by task_id had when the call
\* was made, -1 when there was no such row (history).
NoCall ==
  [op |-> "", description |-> <<>>, due_date |-> None, task_id |-> <<>>,
   prior |-> -1, msg |-> ""]

Said(op, msg) == [NoCall EXCEPT !.op = op, !.msg = msg]

\* ------------------------------------------------------------ statements
Max(a, b) == IF a >= b THEN a ELSE b

MaxRowid(t) == IF t = {} THEN 0 ELSE CHOOSE n \in {r.id : r \in t} : \A r \in t : r.id <= n

\* Variant: a plain INTEGER PRIMARY KEY, one more than the largest rowid
\* the table holds now.
NextRowid_noAutoincrement(t, s) == MaxRowid(t) + 1

\* id INTEGER PRIMARY KEY AUTOINCREMENT: one more than the largest rowid the
\* table has ever held.
NextRowid(t, s) == Max(s, MaxRowid(t)) + 1

\* Variant: the due date is not bound.
InsertRow_noDueDate(t, s, d, due) ==
  t \cup {[id |-> NextRowid(t, s), description |-> d, due_date |-> None, completed |-> 0]}

\* INSERT INTO tasks (description, due_date) VALUES (?, ?); completed
\* takes its DEFAULT 0.
InsertRow(t, s, d, due) ==
  t \cup {[id |-> NextRowid(t, s), description |-> d, due_date |-> due, completed |-> 0]}

\* WHERE id = ?  (the parameter is a positive integer given by its digits)
Matches(r, task_id) == IntToStr(r.id) = task_id

\* Variant: the UPDATE without its WHERE clause.
UpdateCompleted_noWhere(t, task_id) == { [r EXCEPT !.completed = 1] : r \in t }

\* Variant: the UPDATE flips the flag.
UpdateCompleted_toggle(t, task_id) ==
  { IF Matches(r, task_id) THEN [r EXCEPT !.completed = 1 - r.completed] ELSE r : r \in t }

\* UPDATE tasks SET completed = 1 WHERE id = ?
UpdateCompleted(t, task_id) ==
  { IF Matches(r, task_id) THEN [r EXCEPT !.completed = 1] ELSE r : r \in t }

\* DELETE FROM tasks WHERE id = ?
DeleteRow(t, task_id) == { r \in t : ~Matches(r, task_id) }

\* cursor.rowcount of the UPDATE and of the DELETE: the rows WHERE selects.
RowCount(t, task_id) == Cardinality({ r \in t : Matches(r, task_id) })

\* ORDER BY due_date ASC: NULL first, then texts in memcmp order.
DueLess(a, b) ==
  IF a = None THEN b # None
  ELSE b # None /\ TextLess(a, b)

\* ORDER BY due_date ASC, id ASC
PendingOrder(r1, r2) ==
  \/ DueLess(r1.due_date, r2.due_date)
  \/ r1.due_date = r2.due_date /\ r1.id < r2.id

\* ORDER BY completed ASC, due_date ASC, id ASC
AllOrder(r1, r2) ==
  \/ r1.completed < r2.completed
  \/ r1.completed = r2.completed /\ PendingOrder(r1, r2)

\* A result set in the order of ORDER BY due_date ASC, id ASC.
SortPending(rows) ==
  [ i \in 1..Cardinality(rows) |->
      CHOOSE r \in rows : Cardinality({ q \in rows : PendingOrder(q, r) }) = i - 1 ]

\* A result set in the order of ORDER BY completed ASC, due_date ASC, id ASC.
SortAll(rows) ==
  [ i \in 1..Cardinality(rows) |->
      CHOOSE r \in rows : Cardinality({ q \in rows : AllOrder(q, r) }) = i - 1 ]

\* The two SELECTs of view_tasks, as cursor.fetchall() returns them.
SelectTasks(show_completed, t) ==
  IF show_completed
  THEN SortAll(t)
  ELSE SortPending({ r \in t : r.completed = 0 })

\* -------------------------------------------------------- storage calls
\* Each call opens its connection, runs, and closes it in `finally`.  With
\* the table missing every statement raises "no such table" when prepared.
StatementFails(fault) == ~tableExists \/ fault = "execute"

create_table(fault) ==
  /\ tableExists' = (tableExists \/ fault = "none")
  /\ last' = Said("create_table",
                  CASE fault = "connect" -> "Database connection error"
                    [] fault = "none"    -> "Database table 'tasks' ensured."
                    [] OTHER             -> "Error creating table")
  /\ connOpen' = FALSE
  /\ listed' = <<>>
  /\ UNCHANGED <<tasks, seq, assigned>>

add_task(d, due, fault) ==
  LET call == [NoCall EXCEPT !.op = "add_task", !.description = d, !.due_date = due]
      ok   == fault = "none" /\ tableExists
  IN  /\ tasks' = IF ok THEN InsertRow(tasks, seq, d, due) ELSE tasks
      /\ seq' = IF ok THEN NextRowid(tasks, seq) ELSE seq
      /\ assigned' = IF ok THEN assigned \cup {NextRowid(tasks, seq)} ELSE assigned
      /\ last' = [call EXCEPT !.msg =
                    CASE fault = "connect" -> "Database connection error"
                      [] ok                -> "added successfully"
                      [] OTHER             -> "Error adding task"]
      /\ connOpen' = FALSE
      /\ listed' = <<>>
      /\ UNCHANGED tableExists

view_tasks(show_completed, fault) ==
  LET op   == IF show_completed THEN "view_all" ELSE "view_todo"
      rows == SelectTasks(show_completed, tasks)
      ok   == fault # "connect" /\ ~StatementFails(fault)
  IN  /\ listed' = IF ok THEN rows ELSE <<>>
      /\ last' = Said(op,
                   CASE fault = "connect" -> "Database connection error"
                     [] ~ok               -> "Error viewing tasks"
                     [] rows = <<>>       -> "No tasks found."
                     [] OTHER             -> "Your Tasks")
      /\ connOpen' = FALSE
      /\ UNCHANGED <<tableExists, tasks, seq, assigned>>

\* The completed flag of the row WHERE id = ? selects, -1 without one.
Prior(t, task_id) ==
  IF RowCount(t, task_id) = 0 THEN -1
  ELSE (CHOOSE r \in t : Matches(r, task_id)).completed

\* What complete_task and delete_task do with their parameter, in order:
\* no connection, statement not prepared, parameter not bound
\* (OverflowError, which their `except sqlite3.Error` lets through),
\* statement failed, no row, commit failed, committed.
Outcome(task_id, fault) ==
  CASE fault = "connect"            -> "connect"
    [] ~tableExists                 -> "error"
    [] ~FitsInt64(task_id)          -> "overflow"
    [] fault = "execute"            -> "error"
    [] RowCount(tasks, task_id) = 0 -> "nomatch"
    [] fault = "commit"             -> "error"
    [] OTHER                        -> "done"

complete_task(task_id, fault) ==
  LET o == Outcome(task_id, fault)
  IN  /\ tasks' = IF o = "done" THEN UpdateCompleted(tasks, task_id) ELSE tasks
      /\ last' = [NoCall EXCEPT !.op = "complete_task", !.task_id = task_id,
                                !.prior = Prior(tasks, task_id), !.msg =
                    CASE o = "connect"  -> "Database connection error"
                      [] o = "error"    -> "Error completing task"
                      [] o = "overflow" -> "OverflowError"
                      [] o = "nomatch"  -> "not found or already completed."
                      [] OTHER          -> "marked as completed!"]
      /\ pc' = IF o = "overflow" THEN "crashed" ELSE "menu"
      /\ connOpen' = FALSE
      /\ listed' = <<>>
      /\ UNCHANGED <<tableExists, seq, assigned>>

delete_task(task_id, fault) ==
  LET o == Outcome(task_id, fault)
  IN  /\ tasks' = IF o = "done" THEN DeleteRow(tasks, task_id) ELSE tasks
      /\ last' = [NoCall EXCEPT !.op = "delete_task", !.task_id = task_id,
                                !.prior = Prior(tasks, task_id), !.msg =
                    CASE o = "connect"  -> "Database connection error"
                      [] o = "error"    -> "Error deleting task"
                      [] o = "overflow" -> "OverflowError"
                      [] o = "nomatch"  -> "not found."
                      [] OTHER          -> "deleted successfully!"]
      /\ pc' = IF o = "overflow" THEN "crashed" ELSE "menu"
      /\ connOpen' = FALSE
      /\ listed' = <<>>
      /\ UNCHANGED <<tableExists, seq, assigned>>

\* ------------------------------------------------------------- the shell
Init ==
  /\ pc = "start"
  /\ tableExists = FALSE
  /\ tasks = {}
  /\ seq = 0
  /\ assigned = {}
  /\ description = <<>>
  /\ last = NoCall
  /\ listed = <<>>
  /\ connOpen = FALSE

\* main(): create_table() before the loop.
Startup ==
  /\ pc = "start"
  /\ \E fault \in Faults : create_table(fault)
  /\ pc' = "menu"
  /\ UNCHANGED description

\* One turn of the loop up to its first prompt: the choice is read and
\* stripped; 2 and 3 run view_tasks at once.
MenuChoice ==
  /\ pc = "menu"
  /\ \E line \in ChoiceInputs :
       LET choice == strip(line)
       IN  CASE choice = <<"1">> ->
                  /\ seq < MaxId
                  /\ pc' = "description"
                  /\ last' = Said("menu", "")
                  /\ UNCHANGED <<tableExists, tasks, seq, assigned, listed, connOpen>>
             [] choice = <<"2">> ->
                  /\ \E fault \in Faults \ {"commit"} : view_tasks(FALSE, fault)
                  /\ pc' = "menu"
             [] choice = <<"3">> ->
                  /\ \E fault \in Faults \ {"commit"} : view_tasks(TRUE, fault)
                  /\ pc' = "menu"
             [] choice = <<"4">> ->
                  /\ pc' = "complete_id"
                  /\ last' = Said("menu", "")
                  /\ UNCHANGED <<tableExists, tasks, seq, assigned, listed, connOpen>>
             [] choice = <<"5">> ->
                  /\ pc' = "delete_id"
                  /\ last' = Said("menu", "")
                  /\ UNCHANGED <<tableExists, tasks, seq, assigned, listed, connOpen>>
             [] choice = <<"6">> ->
                  /\ pc' = "exited"
                  /\ last' = Said("exit", "Exiting Task Manager. Goodbye!")
                  /\ UNCHANGED <<tableExists, tasks, seq, assigned, listed, connOpen>>
             [] OTHER ->
                  /\ pc' = "menu"
                  /\ last' = Said("menu", "Invalid choice. Please try again.")
                  /\ UNCHANGED <<tableExists, tasks, seq, assigned, listed, connOpen>>
  /\ UNCHANGED description

\* choice 1: the description is read and stripped; a blank one ends the
\* turn.  last.description keeps the line as it was typed.
EnterDescription ==
  /\ pc = "description"
  /\ \E line \in DescriptionInputs :
       LET d == strip(line)
       IN  IF d # <<>>
           THEN /\ description' = d
                /\ pc' = "due_date"
                /\ last' = [Said("input", "") EXCEPT !.description = line]
           ELSE /\ description' = <<>>
                /\ pc' = "menu"
                /\ last' = [Said("input", "Task description cannot be empty.")
                              EXCEPT !.description = line]
  /\ UNCHANGED <<tableExists, tasks, seq, assigned, listed, connOpen>>

\* get_valid_date_input: None for a blank line, the text itself when
\* strptime accepts it, otherwise "invalid" (the prompt is repeated).
get_valid_date_input(line) ==
  LET date_str == strip(line)
  IN  IF date_str = <<>> THEN None
      ELSE IF strptime(date_str).ok THEN date_str
      ELSE <<"invalid">>

\* choice 1, continued: one line at the due date prompt, then add_task.
EnterDueDate ==
  /\ pc = "due_date"
  /\ \E line \in DueDateInputs :
       LET due_date == get_valid_date_input(line)
       IN  IF due_date = <<"invalid">>
           THEN /\ pc' = "due_date"
                /\ last' = Said("input", "Invalid date format.")
                /\ UNCHANGED <<tableExists, tasks, seq, assigned, description,
                               listed, connOpen>>
           ELSE /\ \E fault \in Faults : add_task(description, due_date, fault)
                /\ pc' = "menu"
                /\ description' = <<>>

\* get_valid_task_id_input: the digits of a positive integer, or the
\* message printed before the prompt is repeated.
get_valid_task_id_input(line) ==
  LET n == ParseInt(line)
  IN  IF ~n.ok THEN [ok |-> FALSE, task_id |-> <<>>,
                     msg |-> "Invalid input. Please enter a number for the Task ID."]
      ELSE IF NotPositive(n) THEN [ok |-> FALSE, task_id |-> <<>>,
                     msg |-> "Task ID must be a positive number."]
      ELSE [ok |-> TRUE, task_id |-> n.digits, msg |-> ""]

\* choice 4: one line at the id prompt, then complete_task.
EnterCompleteId ==
  /\ pc = "complete_id"
  /\ \E line \in TaskIdInputs :
       LET inp == get_valid_task_id_input(line)
       IN  IF inp.ok
           THEN \E fault \in Faults : complete_task(inp.task_id, fault)
           ELSE /\ pc' = "complete_id"
                /\ last' = Said("input", inp.msg)
                /\ UNCHANGED <<tableExists, tasks, seq, assigned, listed, connOpen>>
  /\ UNCHANGED description

\* choice 5: one line at the id prompt, then delete_task.
EnterDeleteId ==
  /\ pc = "delete_id"
  /\ \E line \in TaskIdInputs :
       LET inp == get_valid_task_id_input(line)
       IN  IF inp.ok
           THEN \E fault \in Faults : delete_task(inp.task_id, fault)
           ELSE /\ pc' = "delete_id"
                /\ last' = Said("input", inp.msg)
                /\ UNCHANGED <<tableExists, tasks, seq, assigned, listed, connOpen>>
  /\ UNCHANGED description

Next ==
  \/ Startup
  \/ MenuChoice
  \/ EnterDescription
  \/ EnterDueDate
  \/ EnterCompleteId
  \/ EnterDeleteId

Spec == Init /\ [][Next]_vars

\* --------------------------------------------------------------- typing
TypeOK ==
  /\ pc \in {"start", "menu", "description", "due_date", "complete_id",
             "delete_id", "exited", "crashed"}
  /\ tableExists \in BOOLEAN
  /\ \A r \in tasks : r.id \in 1..MaxId /\ r.completed \in {0, 1}
  /\ seq \in 0..MaxId
  /\ assigned \subseteq 1..MaxId
  /\ connOpen \in BOOLEAN

\* ------------------------------------------------- vocabulary of the claims
Ids(t) == { r.id : r \in t }

\* The messages of a caught sqlite3.Error.
StorageFailure ==
  { "Database connection error", "Error creating table", "Error adding task",
    "Error viewing tasks", "Error completing task", "Error deleting task" }

\* A step in which main() called the storage function.
AddCalled      == pc = "due_date" /\ pc' = "menu"
CompleteCalled == pc = "complete_id" /\ pc' # "complete_id"
DeleteCalled   == pc = "delete_id" /\ pc' # "delete_id"

\* The elements of a sequence.
Range(sq) == { sq[i] : i \in 1..Len(sq) }

\* A text of blanks only.
Blank(s) == \A i \in 1..Len(s) : s[i] = " "

\* The calendar day a stored due date names, as days-comparable number.
DayNumber(due) ==
  LET p == strptime(due) IN (p.year * 12 + (p.month - 1)) * 31 + (p.day - 1)

\* Due date a is before due date b: no due date first, then by calendar day.
DateBefore(a, b) ==
  IF a = None THEN b # None
  ELSE b # None /\ DayNumber(a) < DayNumber(b)

SameDate(a, b) == ~DateBefore(a, b) /\ ~DateBefore(b, a)

\* Row r1 may stand before row r2 in a listing by due date, then id.
ByDateThenId(r1, r2) ==
  \/ DateBefore(r1.due_date, r2.due_date)
  \/ SameDate(r1.due_date, r2.due_date) /\ r1.id <= r2.id

\* ------------------------------------------------------------------- C1
\* C1: when add_task reports success, ListTasks(true) of the new store holds
\* every old row and exactly one new row; the new row has completed = 0,
\* the description and the due date main() passed, and an id greater than
\* every id assigned before (deleted ones included).
C1_AddThenListAll ==
  [][ (AddCalled /\ last'.msg = "added successfully") =>
        LET rows == SelectTasks(TRUE, tasks')
            new  == { i \in 1..Len(rows) : rows[i] \notin tasks }
        IN  /\ Cardinality(new) = 1
            /\ Len(rows) = Cardinality(tasks) + 1
            /\ tasks \subseteq Range(rows)
            /\ \A i \in new :
                 /\ rows[i].completed = 0
                 /\ rows[i].description = description
                 /\ rows[i].due_date = last'.due_date
                 /\ \A a \in assigned : rows[i].id > a ]_vars

\* An add with a due date has succeeded after an earlier task was deleted.
C1_Witness ==
  /\ last.op = "add_task"
  /\ last.msg = "added successfully"
  /\ last.due_date # None
  /\ assigned \ Ids(tasks) # {}

\* ------------------------------------------------------------------- C2
\* C2: an id that appears in the table was never assigned before, no two
\* rows share an id, and every id in the table is recorded as assigned.
C2_IdNeverReused ==
  [][ /\ \A n \in Ids(tasks') \ Ids(tasks) : n \notin assigned
      /\ Cardinality(Ids(tasks')) = Cardinality(tasks')
      /\ Ids(tasks') \subseteq assigned' ]_vars

\* A task was added right after the table had been emptied by deleting,
\* among others, the task with the highest id.
C2_Witness ==
  /\ last.op = "add_task"
  /\ last.msg = "added successfully"
  /\ Ids(tasks) = {seq}
  /\ seq - 1 \in assigned

\* ------------------------------------------------------------------- C3
\* C3: a complete_task that returns, without a storage failure, for an id
\* that has no row or whose row is already completed prints "not found or
\* already completed" and leaves the table as it was.
C3_CompleteNoMatch ==
  [][ ( /\ CompleteCalled
        /\ pc' = "menu"
        /\ last'.msg \notin StorageFailure
        /\ \A r \in tasks : Matches(r, last'.task_id) => r.completed = 1 )
      => ( /\ last'.msg = "not found or already completed."
           /\ tasks' = tasks ) ]_vars

\* ------------------------------------------------------------------- C4
\* C4: complete_task on the id of a pending row, without a storage failure,
\* prints "marked as completed", changes that row's completed flag to 1 and
\* nothing else; ListTasks(false) then omits the row and ListTasks(true)
\* shows it with completed = 1.
C4_CompletePending ==
  [][ \A r \in tasks :
        ( /\ CompleteCalled
          /\ last'.msg \notin StorageFailure
          /\ Matches(r, last'.task_id)
          /\ r.completed = 0 )
        => LET done == [r EXCEPT !.completed = 1]
           IN  /\ last'.msg = "marked as completed!"
               /\ tasks' = (tasks \ {r}) \cup {done}
               /\ \A q \in Range(SelectTasks(FALSE, tasks')) : q.id # r.id
               /\ { q \in Range(SelectTasks(TRUE, tasks')) : q.id = r.id } = {done} ]_vars

\* A pending task was completed while another task stayed pending.
C4_Witness ==
  /\ last.op = "complete_task"
  /\ last.msg = "marked as completed!"
  /\ last.prior = 0
  /\ \E r \in tasks : r.completed = 0

\* ------------------------------------------------------------------- C5
\* C5: delete_task, without a storage failure, on the id of a row prints
\* "deleted successfully" and removes that row only; on an id without a row
\* it prints "not found" and changes nothing; and complete_task on an id
\* whose row was deleted prints its no-match message and changes nothing.
C5_Delete ==
  [][ /\ ( DeleteCalled /\ last'.msg \notin StorageFailure )
         => IF \E r \in tasks : Matches(r, last'.task_id)
            THEN /\ last'.msg = "deleted successfully!"
                 /\ tasks' = { r \in tasks : ~Matches(r, last'.task_id) }
                 /\ Cardinality(tasks') = Cardinality(tasks) - 1
            ELSE /\ last'.msg = "not found."
                 /\ tasks' = tasks
      /\ ( /\ CompleteCalled
           /\ last'.msg \notin StorageFailure
           /\ \E n \in assigned \ Ids(tasks) : IntToStr(n) = last'.task_id )
         => ( /\ last'.msg = "not found or already completed."
              /\ tasks' = tasks ) ]_vars

\* ------------------------------------------------------------------- C6
\* C6: the rows view_tasks(True) prints are the rows of the table, each
\* once, every pending row before every completed row, and within each
\* group by calendar due date (no due date first), then by id.
C6_ListAllOrder ==
  ( last.op = "view_all" /\ last.msg \notin StorageFailure ) =>
      /\ Range(listed) = tasks
      /\ Len(listed) = Cardinality(tasks)
      /\ \A i, j \in 1..Len(listed) :
           i < j => \/ listed[i].completed < listed[j].completed
                    \/ /\ listed[i].completed = listed[j].completed
                       /\ ByDateThenId(listed[i], listed[j])

\* ------------------------------------------------------------------- C7
\* C7: the rows view_tasks(False) prints are exactly the rows with
\* completed = 0, each once, by calendar due date (no due date first),
\* then by id; with no such row the result is empty and no error is shown.
C7_ListPendingOrder ==
  ( last.op = "view_todo" /\ last.msg \notin StorageFailure ) =>
      /\ Range(listed) = { r \in tasks : r.completed = 0 }
      /\ Len(listed) = Cardinality(Range(listed))
      /\ (listed = <<>>) = (last.msg = "No tasks found.")
      /\ \A i, j \in 1..Len(listed) : i < j => ByDateThenId(listed[i], listed[j])

\* ------------------------------------------------------------------- C8
\* C8: a row appears only in a step that calls add_task, and then with
\* completed = 0; a row disappears only in a step that calls delete_task;
\* while a row exists its description and due date stay, and its completed
\* flag changes only in a step that calls complete_task and only from 0 to
\* 1; a step taken at the menu (the listings among them) leaves the table
\* and the id counter as they are.
C8_Lifecycle ==
  [][ /\ \A q \in tasks' :
           q.id \notin Ids(tasks) => AddCalled /\ q.completed = 0
      /\ \A r \in tasks :
           r.id \notin Ids(tasks') => DeleteCalled
      /\ \A r \in tasks, q \in tasks' :
           r.id = q.id =>
             /\ q.description = r.description
             /\ q.due_date = r.due_date
             /\ q.completed >= r.completed
             /\ q.completed # r.completed => CompleteCalled
      /\ pc = "menu" => tasks' = tasks /\ seq' = seq ]_vars

\* A listing shows a completed task after another task was deleted.
C8_Witness ==
  /\ last.op = "view_all"
  /\ \E i \in 1..Len(listed) : listed[i].completed = 1
  /\ assigned \ Ids(tasks) # {}

\* ------------------------------------------------------------------- C9
\* C9: a storage call that fails leaves the table as it was, its
\* connection closed and main() back at the menu; and main() stops only
\* at the menu, by choice 6.
C9_FailureContained ==
  [][ /\ ( (AddCalled \/ CompleteCalled \/ DeleteCalled \/ pc = "menu")
           /\ last'.msg \in StorageFailure )
         => ( tasks' = tasks /\ seq' = seq /\ ~connOpen' /\ pc' = "menu" )
      /\ ( pc \notin {"exited", "crashed"} /\ pc' \notin
             {"menu", "description", "due_date", "complete_id", "delete_id"} )
         => ( pc = "menu" /\ pc' = "exited" /\ last'.op = "exit" ) ]_vars

\* ------------------------------------------------------------------ C10
\* C10: no stored description is empty or blank, and a blank line at the
\* description prompt prints the error and returns to the menu with the
\* date not asked for and the table and the id counter as they were.
C10_DescriptionNonEmpty ==
  [][ /\ \A r \in tasks' : r.description # <<>> /\ ~Blank(r.description)
      /\ ( pc = "description" /\ Blank(last'.description) )
         => ( /\ pc' = "menu"
              /\ last'.msg = "Task description cannot be empty."
              /\ tasks' = tasks
              /\ seq' = seq
              /\ assigned' = assigned ) ]_vars

\* A task is stored, and afterwards a line of blanks was refused at the
\* description prompt.
C10_Witness ==
  /\ last.op = "input"
  /\ last.msg = "Task description cannot be empty."
  /\ last.description # <<>>
  /\ tasks # {}

====
